---- MODULE Spec2Model ----
(***************************************************************************)
(* Model of src/web/static/js/gallery.js: the gallery page's shared view   *)
(* state, the category deriver (loadCategories), the image fetcher         *)
(* (loadImages), the filter/sort engine (handleSort, applyFiltersAndSort)  *)
(* and the DOMContentLoaded entry point.                                   *)
(*                                                                         *)
(* JavaScript strings are modelled as sequences of UTF-16 code units, so   *)
(* that split('/') and localeCompare are computed, not assumed.            *)
(***************************************************************************)
EXTENDS Integers, Sequences, FiniteSets, TLC

VARIABLES allImages, filteredImages, activeFilters, categoryFilters,
          containerPresent, displayed, lastSort, lastOp, again,
          pc, entryTrace, entryResult, calls, storedFrom

vars == <<allImages, filteredImages, activeFilters, categoryFilters,
          containerPresent, displayed, lastSort, lastOp, again,
          pc, entryTrace, entryResult, calls, storedFrom>>

(* ------------------------------ bounds -------------------------------- *)

\* longest image list held in state.allImages
MaxImages == 3
\* longest image list a response body of /api/images carries in a session
MaxBody == 2
\* number of loadImages calls made by callers other than the entry point
MaxCalls == 2

(* --------------------------- JavaScript values ------------------------ *)

\* the JS value undefined, where a string is expected
Undefined == "undefined"

\* '/' as a UTF-16 code unit
Slash == 47

\* image records: { file_info: { path, name, size, modified } }
Image(path, name, size, modified) ==
    [file_info |-> [path |-> path, name |-> name, size |-> size, modified |-> modified]]

\* the records the model draws image lists from:
\*   "a/x" named "a",  "b/y" named "B",  "a" named "Ab",  "/z" named "ac"
Pool ==
    { Image(<<97, 47, 120>>, <<97>>,     1, 2),
      Image(<<98, 47, 121>>, <<66>>,     2, 2),
      Image(<<97>>,          <<65, 98>>, 2, 1),
      Image(<<47, 122>>,     <<97, 99>>, 3, 3) }

SeqsUpTo(S, n) == UNION { [1..k -> S] : k \in 0..n }

\* the sort criteria a caller or the #sort-select control can supply:
\* the three recognised ones, an unrecognised one, the empty string, none
Criteria == {"date", "name", "size", "rating", "", Undefined}

Truthy(v) == v \notin {"", Undefined}

(* ------------------------- String.prototype.split --------------------- *)

RECURSIVE FirstSegment(_)
\* path.split('/')[0]: the code units before the first '/', all of them
\* when there is none
FirstSegment(s) ==
    IF s = <<>> \/ Head(s) = Slash THEN <<>>
    ELSE <<Head(s)>> \o FirstSegment(Tail(s))

CategoryOf(image) == FirstSegment(image.file_info.path)

(* ----------------------------- loadCategories ------------------------- *)

RECURSIVE SetInsertionOrder(_, _)
\* new Set() filled by forEach, read back by Array.from: each category
\* once, in the order of its first add
SetInsertionOrder(images, seen) ==
    IF images = <<>> THEN seen
    ELSE LET c == CategoryOf(Head(images))
         IN  SetInsertionOrder(Tail(images),
                 IF \E i \in 1..Len(seen) : seen[i] = c THEN seen ELSE Append(seen, c))

\* mutant: an array in place of the Set, a button per image
RenderButtons_NoSet(images) == [i \in DOMAIN images |-> CategoryOf(images[i])]

\* the buttons of the string assigned to categoryFilters.innerHTML, one per
\* element of Array.from(categories), identified by data-category
RenderButtons(images) == SetInsertionOrder(images, <<>>)

(* -------------------------- applyFiltersAndSort ----------------------- *)

\* mutant: the filter keeps what the active filters exclude
FilterImages_Negated(images, filters) ==
    IF Cardinality(filters) > 0
    THEN SelectSeq(images, LAMBDA image : CategoryOf(image) \notin filters)
    ELSE images

\* mutant: the filter runs with no active filter too, and keeps nothing
FilterImages_NoSizeTest(images, filters) ==
    SelectSeq(images, LAMBDA image : CategoryOf(image) \in filters)

\* filtered.filter(image => state.activeFilters.has(category)), applied
\* only when activeFilters.size > 0
FilterImages(images, filters) ==
    IF Cardinality(filters) > 0
    THEN SelectSeq(images, LAMBDA image : CategoryOf(image) \in filters)
    ELSE images

(* ----------------------- String.prototype.localeCompare --------------- *)

Sign(n) == IF n < 0 THEN -1 ELSE IF n > 0 THEN 1 ELSE 0

RECURSIVE CompareWeights(_, _)
\* compares two weight sequences element by element; a proper prefix sorts first
CompareWeights(s, t) ==
    IF s = <<>> THEN (IF t = <<>> THEN 0 ELSE -1)
    ELSE IF t = <<>> THEN 1
    ELSE IF Head(s) # Head(t) THEN Sign(Head(s) - Head(t))
    ELSE CompareWeights(Tail(s), Tail(t))

IsUpper(c) == c \in 65..90

\* primary collation weight of a code unit: the letter, whatever its case
PrimaryWeight(c) == IF IsUpper(c) THEN c + 32 ELSE c

\* tertiary collation weight: lower case before upper case
TertiaryWeight(c) == IF IsUpper(c) THEN 1 ELSE 0

PrimaryWeights(s) == [i \in 1..Len(s) |-> PrimaryWeight(s[i])]

TertiaryWeights(s) == [i \in 1..Len(s) |-> TertiaryWeight(s[i])]

\* a.localeCompare(b) on strings of ASCII letters, as the collation of the
\* default locale does it: the letters decide first, over the whole string,
\* and case only breaks a tie between strings with the same letters
LocaleCompare(a, b) ==
    LET primary == CompareWeights(PrimaryWeights(a), PrimaryWeights(b))
    IN  IF primary # 0 THEN primary
        ELSE CompareWeights(TertiaryWeights(a), TertiaryWeights(b))

\* the order of the < operator on strings: by code unit
CodeUnitCompare(a, b) == CompareWeights(a, b)

(* ------------------------------- sorting ------------------------------ *)

\* mutant: the operands of the date comparison exchanged, oldest first
Comparator_DateAscending(sortCriteria, a, b) ==
    CASE sortCriteria = "date" -> a.file_info.modified - b.file_info.modified
      [] sortCriteria = "name" -> LocaleCompare(a.file_info.name, b.file_info.name)
      [] sortCriteria = "size" -> b.file_info.size - a.file_info.size
      [] OTHER -> 0

\* the comparator handed to filtered.sort
Comparator(sortCriteria, a, b) ==
    CASE sortCriteria = "date" -> b.file_info.modified - a.file_info.modified
      [] sortCriteria = "name" -> LocaleCompare(a.file_info.name, b.file_info.name)
      [] sortCriteria = "size" -> b.file_info.size - a.file_info.size
      [] OTHER -> 0

RECURSIVE InsertSorted_BeforeEquals(_, _, _)
\* mutant: an unstable sort, x goes in front of the elements it equals
InsertSorted_BeforeEquals(x, sorted, sortCriteria) ==
    IF sorted = <<>> THEN <<x>>
    ELSE IF Comparator(sortCriteria, Head(sorted), x) < 0
         THEN <<Head(sorted)>> \o InsertSorted_BeforeEquals(x, Tail(sorted), sortCriteria)
         ELSE <<x>> \o sorted

RECURSIVE InsertSorted(_, _, _)
\* x goes behind every element that does not sort after it
InsertSorted(x, sorted, sortCriteria) ==
    IF sorted = <<>> THEN <<x>>
    ELSE IF Comparator(sortCriteria, Head(sorted), x) <= 0
         THEN <<Head(sorted)>> \o InsertSorted(x, Tail(sorted), sortCriteria)
         ELSE <<x>> \o sorted

RECURSIVE ArraySort(_, _, _)
\* Array.prototype.sort with a comparator: a stable sort; elements that
\* compare equal keep their order (elements are taken left to right, and
\* each goes behind its equals)
ArraySort(images, sortCriteria, acc) ==
    IF images = <<>> THEN acc
    ELSE ArraySort(Tail(images), sortCriteria, InsertSorted(Head(images), acc, sortCriteria))

\* if (sortCriteria) { filtered.sort(...) }
SortImages(images, sortCriteria) ==
    IF Truthy(sortCriteria) THEN ArraySort(images, sortCriteria, <<>>) ELSE images

\* mutant: the images are added to the previous result
SpreadAllImages_OntoPrevious == filteredImages \o allImages

\* let filtered = [...state.allImages]
SpreadAllImages == allImages

\* the sequence applyFiltersAndSort stores and displays
FilteredAndSorted(sortCriteria) ==
    SortImages(FilterImages(SpreadAllImages, activeFilters), sortCriteria)

(* ------------------------------ loadImages ---------------------------- *)

\* the category argument of loadImages: null (the default), '' or "a"
CategoryArgs ==
    { [given |-> FALSE, text |-> <<>>],
      [given |-> TRUE,  text |-> <<>>],
      [given |-> TRUE,  text |-> <<97>>] }

NoCategory == [given |-> FALSE, text |-> <<>>]

\* category ? `/api/images?category=${category}` : '/api/images'
LoadImagesUrl(category) ==
    IF category.given /\ category.text # <<>>
    THEN [path |-> "/api/images", query |-> <<"category", category.text>>]
    ELSE [path |-> "/api/images", query |-> <<>>]

\* the records a response body is built from
BodyPool ==
    { Image(<<97, 47, 120>>, <<97>>, 1, 2),
      Image(<<98, 47, 121>>, <<66>>, 2, 2) }

\* how fetch(url) settles: it rejects on a network error and fulfils with a
\* response on every HTTP status
FetchOutcomes == {"networkError", "200", "500"}

\* what response.json() yields: a rejection when the body is not JSON, else
\* the parsed body: an image list, or some other JSON value (an error object)
UndefinedResult == [kind |-> "undefined", value |-> <<>>]
ErrorObject     == [kind |-> "object", value |-> <<>>]
ImageList(body) == [kind |-> "array", value |-> body]

JsonOutcomes(status) ==
    {[parsed |-> FALSE, json |-> UndefinedResult]}
    \cup (IF status = "200"
          THEN {[parsed |-> TRUE, json |-> ImageList(b)] : b \in SeqsUpTo(BodyPool, MaxBody)}
          ELSE {[parsed |-> TRUE, json |-> ErrorObject],
                [parsed |-> TRUE, json |-> ImageList(<<>>)]})

\* return images; (the catch block returns nothing)
LoadImagesReturn(outcome) == IF outcome.parsed THEN outcome.json ELSE UndefinedResult

\* console.error('Error loading images:', error) runs in the catch block only
LoadImagesLogs(outcome) == ~outcome.parsed

\* mutant: requests are sequenced, a call settles after the calls before it
MaySettle_Sequenced(i, phase) ==
    calls[i].at = phase /\ \A j \in 1..(i - 1) : calls[j].at = "returned"

\* a pending call's await settles whenever its own request does, whatever
\* the other calls are doing
MaySettle(i, phase) == calls[i].at = phase

Fetching(caller, url) == [caller |-> caller, at |-> "fetch", url |-> url]
Parsing(caller, status) == [caller |-> caller, at |-> "json", status |-> status]
Returned(caller, failed, result, logged) ==
    [caller |-> caller, at |-> "returned", failed |-> failed,
     kind |-> result.kind, logged |-> logged]

\* the calls suspended at the given await
AtPhase(phase) == { i \in DOMAIN calls : calls[i].at = phase }

OtherCalls == { i \in DOMAIN calls : calls[i].caller = "other" }

\* a caller that keeps what loadImages returned: state.allImages = images,
\* for an image list
CallerStores(i, result) ==
    IF result.kind = "array"
    THEN allImages' = result.value /\ storedFrom' = i
    ELSE UNCHANGED <<allImages, storedFrom>>

\* mutant: the entry point keeps the images too
LoadImagesReturns_EntryStores(i, failed, result, logged) ==
    /\ calls' = [calls EXCEPT ![i] = Returned(calls[i].caller, failed, result, logged)]
    /\ CallerStores(i, result)
    /\ IF calls[i].caller = "entry"
       THEN pc' = "done" /\ entryResult' = result
       ELSE UNCHANGED <<pc, entryResult>>

\* what is left of the call when loadImages returns to the entry point,
\* which drops the result, or to another caller
LoadImagesReturns(i, failed, result, logged) ==
    /\ calls' = [calls EXCEPT ![i] = Returned(calls[i].caller, failed, result, logged)]
    /\ IF calls[i].caller = "entry"
       THEN /\ pc' = "done"
            /\ entryResult' = result
            /\ UNCHANGED <<allImages, storedFrom>>
       ELSE /\ CallerStores(i, result)
            /\ UNCHANGED <<pc, entryResult>>

ViewUnchanged ==
    /\ again' = FALSE
    /\ UNCHANGED <<filteredImages, activeFilters, displayed, lastSort>>

\* loadImages(category), up to its first await
CallLoadImages(category) ==
    /\ pc \in {"loadImages", "done"}
    /\ Cardinality(OtherCalls) < MaxCalls
    /\ calls' = Append(calls, Fetching("other", LoadImagesUrl(category)))
    /\ lastOp' = "loadImages"
    /\ ViewUnchanged
    /\ UNCHANGED <<allImages, categoryFilters, containerPresent, pc, entryTrace,
                   entryResult, storedFrom>>

\* await fetch(url) settles
FetchSettles(i, outcome) ==
    /\ MaySettle(i, "fetch")
    /\ IF outcome = "networkError"
       THEN LoadImagesReturns(i, TRUE, UndefinedResult, TRUE)
       ELSE /\ calls' = [calls EXCEPT ![i] = Parsing(calls[i].caller, outcome)]
            /\ UNCHANGED <<allImages, storedFrom, pc, entryResult>>
    /\ lastOp' = "loadImages"
    /\ ViewUnchanged
    /\ UNCHANGED <<categoryFilters, containerPresent, entryTrace>>

\* await response.json() settles
JsonSettles(i, outcome) ==
    /\ MaySettle(i, "json")
    /\ LoadImagesReturns(i, calls[i].status # "200" \/ ~outcome.parsed,
                         LoadImagesReturn(outcome), LoadImagesLogs(outcome))
    /\ lastOp' = "loadImages"
    /\ ViewUnchanged
    /\ UNCHANGED <<categoryFilters, containerPresent, entryTrace>>

(* ------------------------------ entry point --------------------------- *)

\* document.getElementById('category-filters') is null when the page has no
\* such element, and setting innerHTML on it throws
LoadCategoriesThrows == ~containerPresent

\* the body of loadCategories: the try block, or the catch block
LoadCategoriesBody ==
    IF LoadCategoriesThrows
    THEN UNCHANGED categoryFilters
    ELSE categoryFilters' = RenderButtons(allImages)

\* mutant: no try/catch, the exception rejects the promise
LoadCategoriesPromise_NoCatch(threw) == IF threw THEN "rejected" ELSE "fulfilled"

\* the promise loadCategories returns: its try/catch takes every exception
LoadCategoriesPromise(threw) == "fulfilled"

CategoriesEvent(threw) ==
    [event |-> "loadCategories", detail |-> IF threw THEN "caught" ELSE "returned"]

FetchEvent(url) == [event |-> "fetch", url |-> url]

\* the listener, up to the end of await loadCategories()
DOMContentLoaded ==
    /\ pc = "loading"
    /\ LoadCategoriesBody
    /\ entryTrace' = Append(entryTrace, CategoriesEvent(LoadCategoriesThrows))
    /\ pc' = IF LoadCategoriesPromise(LoadCategoriesThrows) = "fulfilled"
             THEN "categories" ELSE "rejected"
    /\ lastOp' = "loadCategories"
    /\ ViewUnchanged
    /\ UNCHANGED <<allImages, containerPresent, entryResult, calls, storedFrom>>

\* the listener goes on: loadImages() with no argument, up to its first await
EntryLoadImages ==
    /\ pc = "categories"
    /\ calls' = Append(calls, Fetching("entry", LoadImagesUrl(NoCategory)))
    /\ entryTrace' = Append(entryTrace, FetchEvent(LoadImagesUrl(NoCategory)))
    /\ pc' = "loadImages"
    /\ lastOp' = "loadImages"
    /\ ViewUnchanged
    /\ UNCHANGED <<allImages, categoryFilters, containerPresent, entryResult, storedFrom>>

(* ------------------------- handlers of the page ----------------------- *)

\* loadCategories(), called again by the page
loadCategories ==
    /\ pc \in {"loadImages", "done"}
    /\ LoadCategoriesBody
    /\ lastOp' = "loadCategories"
    /\ ViewUnchanged
    /\ UNCHANGED <<allImages, containerPresent, pc, entryTrace, entryResult, calls, storedFrom>>

\* applyFiltersAndSort(sortCriteria)
applyFiltersAndSort(sortCriteria) ==
    /\ pc \in {"loadImages", "done"}
    /\ filteredImages' = FilteredAndSorted(sortCriteria)
    /\ displayed' = [called |-> TRUE, images |-> FilteredAndSorted(sortCriteria)]
    /\ lastSort' = sortCriteria
    /\ again' = (lastOp = "applyFiltersAndSort" /\ lastSort = sortCriteria)
    /\ lastOp' = "applyFiltersAndSort"
    /\ UNCHANGED <<allImages, activeFilters, categoryFilters, containerPresent,
                   pc, entryTrace, entryResult, calls, storedFrom>>

\* the values the #sort-select control can hold
SelectValues == Criteria \ {Undefined}

handleSort == \E criteria \in SelectValues : applyFiltersAndSort(criteria)

\* applyFiltersAndSort(), called with no argument
applyFiltersAndSortNoArg == applyFiltersAndSort(Undefined)

\* toggleFilter(category), bound to the onclick of a rendered button: the
\* category joins or leaves state.activeFilters
toggleFilter(category) ==
    /\ pc \in {"loadImages", "done"}
    /\ \E i \in DOMAIN categoryFilters : categoryFilters[i] = category
    /\ activeFilters' = IF category \in activeFilters
                        THEN activeFilters \ {category}
                        ELSE activeFilters \cup {category}
    /\ lastOp' = "toggleFilter"
    /\ again' = FALSE
    /\ UNCHANGED <<allImages, filteredImages, categoryFilters, containerPresent, displayed,
                   lastSort, pc, entryTrace, entryResult, calls, storedFrom>>

\* state.allImages = images, by the page, with a fetched image list
StoreImages(images) ==
    /\ pc \in {"loadImages", "done"}
    /\ allImages' = images
    /\ lastOp' = "storeImages"
    /\ again' = FALSE
    /\ UNCHANGED <<filteredImages, activeFilters, categoryFilters, containerPresent, displayed,
                   lastSort, pc, entryTrace, entryResult, calls, storedFrom>>

(* ---------------------------- specifications -------------------------- *)

NotDisplayed == [called |-> FALSE, images |-> <<>>]

\* the page before DOMContentLoaded: an empty view state
Init ==
    /\ allImages = <<>>
    /\ filteredImages = <<>>
    /\ activeFilters = {}
    /\ categoryFilters = <<>>
    /\ containerPresent \in BOOLEAN
    /\ displayed = NotDisplayed
    /\ lastSort = Undefined
    /\ lastOp = "none"
    /\ again = FALSE
    /\ pc = "loading"
    /\ entryTrace = <<>>
    /\ entryResult = UndefinedResult
    /\ calls = <<>>
    /\ storedFrom = 0

\* page load and the loadImages calls of a session
Next ==
    \/ DOMContentLoaded
    \/ EntryLoadImages
    \/ \E category \in CategoryArgs : CallLoadImages(category)
    \/ \E i \in AtPhase("fetch") : \E outcome \in FetchOutcomes : FetchSettles(i, outcome)
    \/ \E i \in AtPhase("json") : \E outcome \in JsonOutcomes(calls[i].status) :
           JsonSettles(i, outcome)
    \/ loadCategories

Spec == Init /\ [][Next]_vars

\* the event loop runs the listener and its continuation
FairSpec == Spec /\ WF_vars(DOMContentLoaded) /\ WF_vars(EntryLoadImages)

\* the page after its load, whose initial request failed
PageLoaded ==
    /\ pc = "done"
    /\ entryTrace = <<CategoriesEvent(LoadCategoriesThrows),
                      FetchEvent(LoadImagesUrl(NoCategory))>>
    /\ entryResult = UndefinedResult
    /\ calls = <<Returned("entry", TRUE, UndefinedResult, TRUE)>>
    /\ storedFrom = 0

\* the page after its load, with an empty view state
InitView ==
    /\ allImages = <<>>
    /\ filteredImages = <<>>
    /\ activeFilters = {}
    /\ categoryFilters = <<>>
    /\ containerPresent = TRUE
    /\ displayed = NotDisplayed
    /\ lastSort = Undefined
    /\ lastOp = "none"
    /\ again = FALSE
    /\ PageLoaded

\* the handlers that read and write the view state
NextView ==
    \/ \E images \in SeqsUpTo(BodyPool, MaxBody) : StoreImages(images)
    \/ loadCategories
    \/ \E i \in DOMAIN categoryFilters : toggleFilter(categoryFilters[i])
    \/ handleSort
    \/ applyFiltersAndSortNoArg

SpecView == InitView /\ [][NextView]_vars

\* the categories the filter buttons can stand for
FilterTokens == { CategoryOf(image) : image \in Pool }

\* what the container holds from before: nothing, or the button of an
\* earlier image list whose only category was "b"
StaleButtons == {<<>>, <<(<<98>>)>>}

\* the view states the filter/sort engine and the category deriver are run on
InitEngine ==
    /\ allImages \in SeqsUpTo(Pool, MaxImages)
    /\ filteredImages \in {<<>>, allImages}
    /\ activeFilters \in SUBSET FilterTokens
    /\ categoryFilters \in StaleButtons
    /\ containerPresent \in BOOLEAN
    /\ displayed = NotDisplayed
    /\ lastSort = Undefined
    /\ lastOp = "none"
    /\ again = FALSE
    /\ PageLoaded

NextEngine ==
    \/ loadCategories
    \/ handleSort
    \/ applyFiltersAndSortNoArg

SpecEngine == InitEngine /\ [][NextEngine]_vars

(* ------------------------ vocabulary of the claims -------------------- *)

Elements(seq) == { seq[i] : i \in DOMAIN seq }

Count(seq, x) == Cardinality({ i \in DOMAIN seq : seq[i] = x })

Permutation(s, t) ==
    /\ Len(s) = Len(t)
    /\ \A x \in Elements(s) \cup Elements(t) : Count(s, x) = Count(t, x)

\* the part of a path before its first '/'
BeforeFirstSlash(path) ==
    LET slashes == { i \in DOMAIN path : path[i] = Slash }
        first   == IF slashes = {} THEN Len(path) + 1
                   ELSE CHOOSE i \in slashes : \A j \in slashes : i <= j
    IN  SubSeq(path, 1, first - 1)

InActiveFilters(image) == BeforeFirstSlash(image.file_info.path) \in activeFilters

\* the images of allImages the active filters let through, in their order
Kept == SelectSeq(allImages, LAMBDA image : activeFilters = {} \/ InActiveFilters(image))

Recognised == {"date", "name", "size"}

JustApplied == lastOp = "applyFiltersAndSort"

Adjacent(seq, R(_, _)) == \A i \in 1..(Len(seq) - 1) : R(seq[i], seq[i + 1])

\* filteredImages follows the criterion, names compared by localeCompare
OrderedBy(seq, criterion) ==
    /\ criterion = "date" =>
           Adjacent(seq, LAMBDA a, b : a.file_info.modified >= b.file_info.modified)
    /\ criterion = "size" =>
           Adjacent(seq, LAMBDA a, b : a.file_info.size >= b.file_info.size)
    /\ criterion = "name" =>
           Adjacent(seq, LAMBDA a, b : LocaleCompare(a.file_info.name, b.file_info.name) <= 0)

\* filteredImages follows the criterion, names compared code unit by code unit
OrderedByCodeUnits(seq, criterion) ==
    /\ criterion = "date" =>
           Adjacent(seq, LAMBDA a, b : a.file_info.modified >= b.file_info.modified)
    /\ criterion = "size" =>
           Adjacent(seq, LAMBDA a, b : a.file_info.size >= b.file_info.size)
    /\ criterion = "name" =>
           Adjacent(seq, LAMBDA a, b : CodeUnitCompare(a.file_info.name, b.file_info.name) <= 0)

\* the value the comparator of a recognised criterion compares
SortKey(criterion, image) ==
    CASE criterion = "date" -> <<image.file_info.modified>>
      [] criterion = "size" -> <<image.file_info.size>>
      [] criterion = "name" -> image.file_info.name

\* the images of seq with the sort key of image, in their order
Ties(seq, criterion, image) ==
    SelectSeq(seq, LAMBDA x : SortKey(criterion, x) = SortKey(criterion, image))

\* filteredImages is a subset of allImages and agrees with the active
\* filters and with the criterion applied last
ViewConsistent ==
    /\ Elements(filteredImages) \subseteq Elements(allImages)
    /\ Permutation(filteredImages, Kept)
    /\ OrderedBy(filteredImages, lastSort)
    /\ lastSort \notin Recognised => filteredImages = Kept

(* -------------------------------- claims ------------------------------ *)

C2_FilterExact ==
    JustApplied =>
        /\ \A image \in Elements(allImages) \cup Elements(filteredImages) :
               Count(filteredImages, image) =
                   IF activeFilters = {} \/ InActiveFilters(image)
                   THEN Count(allImages, image) ELSE 0
        /\ activeFilters = {} => Len(filteredImages) = Len(allImages)

\* active filters that drop one image and keep another one twice
C2_Witness ==
    /\ JustApplied
    /\ activeFilters # {}
    /\ \E image \in Elements(allImages) : Count(filteredImages, image) = 2
    /\ \E image \in Elements(allImages) : Count(filteredImages, image) = 0

\* C3 as stated: after applyFiltersAndSort, filteredImages is a permutation
\* of the filtered images, by 'date' with non-increasing modified, by 'size'
\* with non-increasing size, by 'name' with names non-decreasing in the
\* lexicographic order of their code units.
C3_SortedLexicographic ==
    JustApplied =>
        Permutation(filteredImages, Kept) /\ OrderedByCodeUnits(filteredImages, lastSort)

\* C3, amended: the same, with names non-decreasing in the order of
\* localeCompare.
C3_SortedByComparator ==
    JustApplied =>
        Permutation(filteredImages, Kept) /\ OrderedBy(filteredImages, lastSort)

\* a sort by date, by name or by size that moved an image
C3_Witness ==
    /\ JustApplied
    /\ lastSort \in Recognised
    /\ Len(filteredImages) = 3
    /\ filteredImages # Kept

\* C5: loadCategories leaves in #category-filters one button per distinct
\* first path segment of allImages, none twice, none missing, in the order
\* of first occurrence in allImages, whatever the container held before.
C5_Buttons ==
    (lastOp = "loadCategories" /\ containerPresent) =>
        LET firstAt(c) == CHOOSE i \in DOMAIN allImages :
                              /\ BeforeFirstSlash(allImages[i].file_info.path) = c
                              /\ \A j \in 1..(i - 1) :
                                     BeforeFirstSlash(allImages[j].file_info.path) # c
        IN  /\ Elements(categoryFilters) =
                   { BeforeFirstSlash(image.file_info.path) : image \in Elements(allImages) }
            /\ \A i, j \in DOMAIN categoryFilters : i # j => categoryFilters[i] # categoryFilters[j]
            /\ \A i, j \in DOMAIN categoryFilters :
                   i < j => firstAt(categoryFilters[i]) < firstAt(categoryFilters[j])

\* three images of two categories, the second category seen first
C5_Witness ==
    /\ lastOp = "loadCategories"
    /\ containerPresent
    /\ Len(allImages) = 3
    /\ categoryFilters = << <<98>>, <<97>> >>

\* C6: an applyFiltersAndSort call that follows one with the same criterion,
\* with nothing in between, stores and displays the sequence the first did.
C6_Idempotent ==
    [][again' => (filteredImages' = filteredImages /\ displayed' = displayed)]_vars

\* a second call in a row that had something to filter and to sort
C6_Witness ==
    /\ again
    /\ Len(filteredImages) >= 2
    /\ filteredImages # allImages

\* C7: under a criterion other than 'date', 'name' and 'size' (absent and
\* empty ones too) filteredImages is the filtered images in their order in
\* allImages; under a recognised one, images that compare equal keep their
\* order from allImages.
C7_StableOrder ==
    JustApplied =>
        IF lastSort \in Recognised
        THEN \A image \in Elements(filteredImages) :
                 Ties(filteredImages, lastSort, image) = Ties(Kept, lastSort, image)
        ELSE filteredImages = Kept

\* a sort by date that moved an image and left two different images with
\* the same date
C7_Witness ==
    /\ JustApplied
    /\ lastSort = "date"
    /\ filteredImages # Kept
    /\ \E i, j \in DOMAIN filteredImages :
           /\ i < j
           /\ filteredImages[i] # filteredImages[j]
           /\ filteredImages[i].file_info.modified = filteredImages[j].file_info.modified

\* C4 as stated: a loadImages call whose request failed (network error,
\* non-2xx status, body that is not JSON) logs the error and returns
\* undefined, and allImages, filteredImages and activeFilters stay as they
\* were.
C4_FailureYieldsNothing ==
    [][\A i \in DOMAIN calls :
           (calls[i].at # "returned" /\ calls'[i].at = "returned" /\ calls'[i].failed) =>
               /\ calls'[i].logged
               /\ calls'[i].kind = "undefined"
               /\ UNCHANGED <<allImages, filteredImages, activeFilters>>]_vars

EntryIssued == \E i \in DOMAIN entryTrace : entryTrace[i].event = "fetch"

\* C8: the entry point issues its request, with no category, after
\* loadCategories has finished and never before; nothing rejects the
\* listener, and the request is issued also when loadCategories caught an
\* exception.
C8_EntryOrder ==
    /\ [](pc # "rejected")
    /\ [](calls # <<>> => EntryIssued)
    /\ [](EntryIssued =>
              /\ Len(entryTrace) = 2
              /\ entryTrace[1].event = "loadCategories"
              /\ entryTrace[2] = FetchEvent([path |-> "/api/images", query |-> <<>>]))
    /\ (pc = "loading") ~> EntryIssued
    /\ (pc = "loading" /\ ~containerPresent) ~>
           (EntryIssued /\ entryTrace[1].detail = "caught")

\* the request of the entry point, issued after loadCategories caught
C8_Witness ==
    /\ EntryIssued
    /\ entryTrace[1].detail = "caught"
    /\ calls[1].caller = "entry"

\* a step of the listener or of its loadImages call
EntryStep == pc' # pc \/ (calls # <<>> /\ calls'[1] # calls[1])

C10_NoSequencing ==
    \A i \in DOMAIN calls :
        /\ calls[i].at = "fetch" =>
               \A outcome \in FetchOutcomes : ENABLED FetchSettles(i, outcome)
        /\ calls[i].at = "json" =>
               \A outcome \in JsonOutcomes(calls[i].status) : ENABLED JsonSettles(i, outcome)

\* the result of the call issued first was stored after the result of the
\* call issued second, and is what allImages holds
C10_Witness ==
    \E i, j \in OtherCalls :
        /\ i < j
        /\ calls[i].at = "returned" /\ calls[i].kind = "array"
        /\ calls[j].at = "returned" /\ calls[j].kind = "array"
        /\ storedFrom = i

====
